---- MODULE Spec2Model ----
(***************************************************************************)
(* State-machine model of the download / authentication orchestration of   *)
(* bilibilidown-py: core.py (BiliDownloader) and gui.py (MainWindow,       *)
(* WorkerThread, DownloadWorker).                                          *)
(*                                                                         *)
(* Text is a sequence of one-character strings.  Worker threads are a bag  *)
(* of records; the signals they emit are queued to the GUI thread in       *)
(* `events` (Qt queued connections, delivered in posting order).           *)
(***************************************************************************)
EXTENDS Integers, Sequences, FiniteSets, Bags, TLC

VARIABLES
    video_queue,             \* MainWindow.video_queue
    current_info_map,        \* MainWindow.current_info_map (index -> info)
    current_download_index,  \* MainWindow.current_download_index
    is_downloading,          \* MainWindow.is_downloading
    btn_analyze,             \* btn_analyze.isEnabled()
    btn_download,            \* btn_download.isEnabled()
    content_visible,         \* content_area.isVisible() (holds btn_download)
    stats,                   \* stats_total_input, stats_duplicates
    lbl_stats,               \* what lbl_stats shows
    workers,                 \* bag of running QThreads
    events,                  \* signals queued to the GUI thread
    hist,                    \* history of the run (not program state)
    pure                     \* input/output of the function under study

vars == <<video_queue, current_info_map, current_download_index, is_downloading,
          btn_analyze, btn_download, content_visible, stats, lbl_stats,
          workers, events, hist, pure>>

gui_vars == <<video_queue, current_info_map, current_download_index, is_downloading,
              btn_analyze, btn_download, content_visible, stats, lbl_stats,
              workers, events, hist>>

----------------------------------------------------------------------------
(* Bounds of the model *)

MaxAnalyze == 2     \* ANALYZE clicks in one behaviour of Spec
MaxLines == 3       \* lines of one submission in SpecSubmit
MaxTextLen == 4     \* characters of one text in SpecExtract
MaxTracks == 4      \* DASH video tracks of one response in SpecSelect
MaxChunks == 2      \* chunks of one response body in SpecWorker
MaxTotal == 2       \* declared content-length, in chunk units, in SpecWorker
MaxDialogs == 2     \* login dialogs opened in one behaviour of SpecLogin

----------------------------------------------------------------------------
(* Text: characters, str.strip, str.startswith, re.search(r'(BV\w+)')       *)

\* the characters \w matches (letters, digits, underscore) among those modelled
WordChars == {"B", "V", "1", "2", "x", "_"}

\* letters and digits: what an identifier's suffix is made of
AlnumChars == {"B", "V", "1", "2", "x"}

\* characters str.strip removes
SpaceChars == {" "}

\* Python's None, as a text no input can be
None == <<"None">>

\* truthiness of a str-or-None value (`if not key`, `if not bvid`)
Falsy(v) == v = None \/ v = <<>>

RECURSIVE LStrip(_)
LStrip(s) ==
    IF s # <<>> /\ Head(s) \in SpaceChars THEN LStrip(Tail(s)) ELSE s

RECURSIVE RStrip(_)
RStrip(s) ==
    IF s # <<>> /\ s[Len(s)] \in SpaceChars
    THEN RStrip(SubSeq(s, 1, Len(s) - 1))
    ELSE s

\* str.strip()
Strip(s) == RStrip(LStrip(s))

\* text.startswith('BV')
StartsWithBV(text) == Len(text) >= 2 /\ text[1] = "B" /\ text[2] = "V"

\* positions where the pattern BV\w+ matches
MatchStarts(text) ==
    { p \in 1..Len(text) :
        /\ p + 2 <= Len(text)
        /\ text[p] = "B"
        /\ text[p + 1] = "V"
        /\ text[p + 2] \in WordChars }

\* end of the greedy \w+ run that starts at position p
RECURSIVE WordRunEnd(_, _)
WordRunEnd(text, p) ==
    IF p + 1 <= Len(text) /\ text[p + 1] \in WordChars
    THEN WordRunEnd(text, p + 1)
    ELSE p

Min(S) == CHOOSE x \in S : \A y \in S : x <= y

\* ExtractBvid with a lazy quantifier (BV\w+?): the match stops after one character
ExtractBvidLazy(text) ==
    IF MatchStarts(text) # {}
    THEN LET p == Min(MatchStarts(text)) IN SubSeq(text, p, p + 2)
    ELSE IF StartsWithBV(text) THEN text ELSE None

\* BiliDownloader._extract_bvid: leftmost match of BV\w+, greedy; else the text
\* itself when it starts with BV; else None
ExtractBvid(text) ==
    IF MatchStarts(text) # {}
    THEN LET p == Min(MatchStarts(text)) IN SubSeq(text, p, WordRunEnd(text, p + 2))
    ELSE IF StartsWithBV(text) THEN text ELSE None


----------------------------------------------------------------------------
(* Metadata lookup *)

\* what the platform answers to one HTTP request
Resps == {"ok", "api_error", "transport_error"}

\* the VideoMetadata the platform returns for an identifier
VideoTitle == <<"a">>

InfoOf(bvid) == [bvid |-> bvid, title |-> VideoTitle]

\* no metadata (Python's None in a results list)
NoInfo == [bvid |-> None, title |-> None]

\* get_video_info that sends the request before it checks the identifier
GetVideoInfoRequestFirst(url_or_bvid, resp) ==
    LET bvid == ExtractBvid(url_or_bvid) IN
    IF Falsy(bvid)
    THEN [requests |-> 1, raised |-> "ValueError", data |-> NoInfo]
    ELSE IF resp = "transport_error"
    THEN [requests |-> 1, raised |-> "TransportError", data |-> NoInfo]
    ELSE IF resp # "ok"
    THEN [requests |-> 1, raised |-> "ApiError", data |-> NoInfo]
    ELSE [requests |-> 1, raised |-> "none", data |-> InfoOf(bvid)]

\* BiliDownloader.get_video_info: the number of HTTP requests issued, the
\* exception raised ("none" when it returns) and the data returned
GetVideoInfo(url_or_bvid, resp) ==
    LET bvid == ExtractBvid(url_or_bvid) IN
    IF Falsy(bvid)
    THEN [requests |-> 0, raised |-> "ValueError", data |-> NoInfo]
    ELSE IF resp = "transport_error"
    THEN [requests |-> 1, raised |-> "TransportError", data |-> NoInfo]
    ELSE IF resp # "ok"
    THEN [requests |-> 1, raised |-> "ApiError", data |-> NoInfo]
    ELSE [requests |-> 1, raised |-> "none", data |-> InfoOf(bvid)]

\* MainWindow.fetch_batch_info: one lookup per url, None for a url that raised
FetchBatchInfo(urls, resps) ==
    [i \in 1..Len(urls) |-> GetVideoInfo(urls[i], resps[i]).data]

----------------------------------------------------------------------------
(* Submission: trimming and deduplication (analyze_video, lines 849-865) *)

\* raw_lines = [line.strip() for line in text.splitlines() if line.strip()]
RawLines(lines) ==
    SelectSeq([i \in 1..Len(lines) |-> Strip(lines[i])], LAMBDA l : l # <<>>)

\* the key of the loop at lines 859-861, with the raw line as the only key
DedupKeyRaw(line) == line

\* key = _extract_bvid(line), or the line itself when that is falsy
DedupKey(line) ==
    LET key == ExtractBvid(line) IN IF Falsy(key) THEN line ELSE key

\* the loop of lines 857-865 over raw[i..], with what it has collected so far
RECURSIVE DedupLoop(_, _, _, _)
DedupLoop(raw, i, unique_lines, seen_keys) ==
    IF i > Len(raw)
    THEN unique_lines
    ELSE LET key == DedupKey(raw[i]) IN
         IF key \notin seen_keys
         THEN DedupLoop(raw, i + 1, Append(unique_lines, raw[i]), seen_keys \cup {key})
         ELSE DedupLoop(raw, i + 1, unique_lines, seen_keys)

UniqueLines(raw) == DedupLoop(raw, 1, <<>>, {})

----------------------------------------------------------------------------
(* Quality selection (on_play_url_received, lines 1048-1072) *)

\* combo_quality's "Highest" entry
Highest == 999

\* the position of a sort that puts a track before those of the same id
InsertPosBeforeEqual(sorted, t) ==
    Cardinality({ i \in 1..Len(sorted) : sorted[i].id > t.id }) + 1

\* the position where track t goes into the descending list `sorted`: after
\* every track whose id is >= t.id (list.sort is stable, also with reverse=True)
InsertPos(sorted, t) ==
    Cardinality({ i \in 1..Len(sorted) : sorted[i].id >= t.id }) + 1

Insert(sorted, t) ==
    LET k == InsertPos(sorted, t) IN
    SubSeq(sorted, 1, k - 1) \o <<t>> \o SubSeq(sorted, k, Len(sorted))

\* streams.sort(key=lambda x: x['id'], reverse=True)
RECURSIVE SortDesc(_)
SortDesc(streams) ==
    IF streams = <<>>
    THEN <<>>
    ELSE Insert(SortDesc(SubSeq(streams, 1, Len(streams) - 1)), streams[Len(streams)])

\* selection that scans for an exact match only and else takes the lowest
SelectVideoExact(video_streams, target_qn) ==
    LET sorted == SortDesc(video_streams)
        hits == { i \in 1..Len(sorted) : sorted[i].id = target_qn }
    IN  IF target_qn = Highest
        THEN sorted[1]
        ELSE IF hits # {} THEN sorted[Min(hits)] ELSE sorted[Len(sorted)]

\* lines 1052-1067: the selected video stream of a non-empty list
SelectVideo(video_streams, target_qn) ==
    LET sorted == SortDesc(video_streams)
        hits == { i \in 1..Len(sorted) : sorted[i].id <= target_qn }
    IN  IF target_qn = Highest
        THEN sorted[1]
        ELSE IF hits # {} THEN sorted[Min(hits)] ELSE sorted[Len(sorted)]

\* the audio selection without the sort: the stream listed first
SelectAudioFirstListed(audio_streams) == audio_streams[1]

\* lines 1070-1072: the selected audio stream of a non-empty list
SelectAudio(audio_streams) == SortDesc(audio_streams)[1]

\* lines 1068-1080: video_url and audio_url of dash_info, for non-empty lists
DashInfo(play_info, target_qn) ==
    [video_url |-> SelectVideo(play_info.video, target_qn).base_url,
     audio_url |-> SelectAudio(play_info.audio).base_url]

----------------------------------------------------------------------------
(* The output file name: lines 1030-1042 of on_play_url_received *)

\* line 1031: c.isalpha() or c.isdigit() or c == ' '
KeptChar(c) == c \in AlnumChars \cup {"a", " "}

\* line 1031: the title without the characters that are not kept, right-stripped
Sanitize(title) == RStrip(SelectSeq(title, KeptChar))

\* lines 1031-1032 and 1038: base_filename, the bvid when nothing is left
BaseFilename(info) ==
    IF Sanitize(info.title) = <<>> THEN info.bvid ELSE Sanitize(info.title)

DigitChars == <<"0", "1", "2", "3", "4", "5", "6", "7", "8", "9">>

\* str(counter) of the f-string of line 1041
RECURSIVE Decimal(_)
Decimal(n) ==
    IF n < 10
    THEN <<DigitChars[n + 1]>>
    ELSE Decimal(n \div 10) \o <<DigitChars[(n % 10) + 1]>>

\* line 1041: f"{base_filename}({counter})"
Numbered(base_filename, counter) ==
    base_filename \o <<"(">> \o Decimal(counter) \o <<")">>

\* lines 1040-1042: the loop, from `filename` with `counter` the next number;
\* `existing` holds the names n for which n.mp4 exists in downloads_dir
RECURSIVE NumberLoop(_, _, _, _)
NumberLoop(filename, base_filename, counter, existing) ==
    IF filename \in existing
    THEN NumberLoop(Numbered(base_filename, counter), base_filename,
                    counter + 1, existing)
    ELSE filename

\* the file name with a single test instead of the loop
ChooseFilenameOnce(info, existing) ==
    IF BaseFilename(info) \in existing
    THEN Numbered(BaseFilename(info), 1)
    ELSE BaseFilename(info)

\* lines 1030-1042: the file name (without extension) chosen for a job
ChooseFilename(info, existing) ==
    NumberLoop(BaseFilename(info), BaseFilename(info), 1, existing)

----------------------------------------------------------------------------
(* Inputs of the orchestrator model *)

LA1 == <<"B", "V", "1">>                     \* a bare identifier
LA2 == <<" ", "/", "B", "V", "1", " ">>      \* a URL ending in the same identifier
LB == <<"B", "V", "2">>                      \* another identifier
LX == <<"x">>                                \* no identifier in it
LBlank == <<" ">>                            \* whitespace only

\* what the user pastes into entry_url before clicking ANALYZE, line by line
Batches == { <<LA1, LA2>>, <<LA1, LX, LB>>, <<LBlank>> }

\* the values of combo_quality the user picks from in Spec
MainTargets == {Highest, 64}

Track(id, url) == [id |-> id, base_url |-> url]

NoPlay == [kind |-> "none", video |-> <<>>, audio |-> <<>>]

\* the playback responses get_play_url returns in Spec
PlayInfos ==
    { [kind |-> "dash",
       video |-> <<Track(64, "v64"), Track(80, "v80")>>,
       audio |-> <<Track(30216, "a16"), Track(30280, "a80")>>],
      [kind |-> "dash", video |-> <<>>, audio |-> <<Track(30216, "a16")>>],
      [kind |-> "durl", video |-> <<>>, audio |-> <<>>],
      NoPlay }

NoDash == [video_url |-> "", audio_url |-> ""]

----------------------------------------------------------------------------
(* Threads and queued signals *)

\* a running QThread; idx is the queue index the thread works for
Worker(kind, urls, info, target, idx, phase, dash, filename) ==
    [kind |-> kind, urls |-> urls, info |-> info, target |-> target,
     idx |-> idx, phase |-> phase, dash |-> dash, filename |-> filename]

\* WorkerThread(self.fetch_batch_info, unique_lines)
BatchWorker(urls) == Worker("batch", urls, NoInfo, 0, -1, "run", NoDash, <<>>)

\* WorkerThread(self.downloader.get_video_info, url)
InfoWorker(url, idx) == Worker("info", <<url>>, NoInfo, 0, idx, "run", NoDash, <<>>)

\* WorkerThread(self.downloader.get_play_url, info['bvid'], info['cid'], 127)
PlayWorker(info, target, idx) ==
    Worker("play", <<>>, info, target, idx, "run", NoDash, <<>>)

\* DownloadWorker(self.downloader, download_url, filepath, is_dash, dash_info)
\* with filepath, v_path and a_path as the file name they are built from
DlWorker(info, idx, phase, dash, filename) ==
    Worker("dl", <<>>, info, 0, idx, phase, dash, filename)

\* a signal emitted by a thread and not yet delivered to its slot
Event(sig, results, info, play, target, idx) ==
    [sig |-> sig, results |-> results, info |-> info, play |-> play,
     target |-> target, idx |-> idx]

Running == BagToSet(workers)

Start(ws, w) == ws (+) SetToBag({w})

Stop(ws, w) == ws (-) SetToBag({w})

EmptyMap == <<>>

----------------------------------------------------------------------------
(* Initial state: MainWindow.__init__ and setup_ui *)

NoPure == [op |-> "none"]

HistInit ==
    [analyses |-> 0,          \* ANALYZE clicks that started an analysis
     batch_failed |-> FALSE,  \* the last resolution pass failed for every entry
     res_failed |-> {},       \* indices whose lookup failed in the last resolution pass
     results |-> <<>>,        \* results of the last resolution pass
     run |-> "idle",          \* "running" from start_download to queue exhaustion
     run_done |-> 0,          \* on_download_finished calls since start_download
     run_failed |-> 0,        \* on_download_error calls since start_download
     lookups |-> EmptyBag]    \* indices looked up again since start_download

GuiInit ==
    /\ video_queue = <<>>
    /\ current_info_map = EmptyMap
    /\ current_download_index = 0
    /\ is_downloading = FALSE
    /\ btn_analyze = TRUE
    /\ btn_download = TRUE
    /\ content_visible = FALSE
    /\ stats = [set |-> FALSE, total_input |-> 0, duplicates |-> 0]
    /\ lbl_stats = [state |-> "none", success |-> 0, failed |-> 0]
    /\ workers = EmptyBag
    /\ events = <<>>
    /\ hist = HistInit

Init == GuiInit /\ pure = NoPure

----------------------------------------------------------------------------
(* ANALYZE: analyze_video, fetch_batch_info, on_batch_info_received *)

\* MainWindow.analyze_video on the text `lines` (the ANALYZE button's slot)
AnalyzeVideo(lines) ==
    LET raw_lines == RawLines(lines)
        unique_lines == UniqueLines(raw_lines)
    IN  /\ btn_analyze
        /\ IF raw_lines = <<>>
           THEN UNCHANGED gui_vars
           ELSE /\ stats' = [set |-> TRUE,
                             total_input |-> Len(raw_lines),
                             duplicates |-> Len(raw_lines) - Len(unique_lines)]
                /\ lbl_stats' = [state |-> "analyzing", success |-> 0, failed |-> 0]
                /\ video_queue' = unique_lines
                /\ current_info_map' = EmptyMap
                /\ btn_analyze' = FALSE
                /\ workers' = Start(workers, BatchWorker(unique_lines))
                /\ hist' = [hist EXCEPT !.analyses = @ + 1,
                                        !.batch_failed = FALSE,
                                        !.res_failed = {},
                                        !.results = <<>>]
                /\ UNCHANGED <<current_download_index, is_downloading, btn_download,
                               content_visible, events>>

\* WorkerThread.run with target fetch_batch_info: the thread of the resolution pass
FetchBatchInfoRun ==
    \E w \in Running :
        /\ w.kind = "batch"
        /\ \E resps \in [1..Len(w.urls) -> Resps] :
               events' = Append(events,
                   Event("batch_finished", FetchBatchInfo(w.urls, resps),
                         NoInfo, NoPlay, 0, -1))
        /\ workers' = Stop(workers, w)
        /\ UNCHANGED <<video_queue, current_info_map, current_download_index,
                       is_downloading, btn_analyze, btn_download, content_visible,
                       stats, lbl_stats, hist>>

\* the indices i (from 0) with `if info:` true, lines 898-901
ValidIndices(results) == { i \in 0..(Len(results) - 1) : results[i + 1] # NoInfo }

\* the counts with every result counted as a success
BatchCountsAll(results) == [success |-> Len(results), failed |-> 0]

\* success_count and failed_count of lines 904-905
BatchCounts(results) ==
    [success |-> Cardinality(ValidIndices(results)),
     failed |-> Len(results) - Cardinality(ValidIndices(results))]

\* MainWindow.on_batch_info_received, with on_error when no lookup succeeded
OnBatchInfoReceived ==
    /\ events # <<>>
    /\ Head(events).sig = "batch_finished"
    /\ LET results == Head(events).results
           valid == ValidIndices(results)
           counts == BatchCounts(results)
       IN  /\ current_info_map' =
                  [i \in (DOMAIN current_info_map) \cup valid |->
                      IF i \in valid THEN results[i + 1] ELSE current_info_map[i]]
           /\ lbl_stats' = [state |-> "results",
                            success |-> counts.success, failed |-> counts.failed]
           /\ btn_analyze' = TRUE
           /\ IF valid = {}
              THEN btn_download' = TRUE /\ UNCHANGED content_visible
              ELSE content_visible' = TRUE /\ UNCHANGED btn_download
           /\ hist' = [hist EXCEPT !.batch_failed = (valid = {}),
                                   !.res_failed = (0..(Len(results) - 1)) \ valid,
                                   !.results = results]
    /\ events' = Tail(events)
    /\ UNCHANGED <<video_queue, current_download_index, is_downloading, stats, workers>>

----------------------------------------------------------------------------
(* DOWNLOAD: start_download and the chain of slots of one run *)

\* process_download_for_info: starts the stream resolution thread
ProcessDownloadForInfo(ws, info, target_qn, idx) ==
    workers' = Start(ws, PlayWorker(info, target_qn, idx))

\* process_next_download that keeps the queue and the map when it completes
ProcessNextDownloadKeepQueue(idx, downloading, btn, ws, h, target_qn) ==
    /\ current_download_index' = idx
    /\ IF idx >= Len(video_queue)
       THEN /\ is_downloading' = FALSE
            /\ btn_download' = TRUE
            /\ UNCHANGED <<video_queue, current_info_map>>
            /\ workers' = ws
            /\ hist' = [h EXCEPT !.run = "complete"]
       ELSE /\ is_downloading' = downloading
            /\ btn_download' = btn
            /\ UNCHANGED <<video_queue, current_info_map>>
            /\ IF idx \in DOMAIN current_info_map
               THEN /\ ProcessDownloadForInfo(ws, current_info_map[idx], target_qn, idx)
                    /\ hist' = h
               ELSE /\ workers' = Start(ws, InfoWorker(video_queue[idx + 1], idx))
                    /\ hist' = [h EXCEPT !.lookups = @ (+) SetToBag({idx})]

\* MainWindow.process_next_download, called with current_download_index = idx,
\* is_downloading = downloading, btn_download enabled = btn, the running threads
\* ws and the history h; target_qn is combo_quality.currentData()
ProcessNextDownload(idx, downloading, btn, ws, h, target_qn) ==
    /\ current_download_index' = idx
    /\ IF idx >= Len(video_queue)
       THEN /\ is_downloading' = FALSE
            /\ btn_download' = TRUE
            /\ video_queue' = <<>>
            /\ current_info_map' = EmptyMap
            /\ workers' = ws
            /\ hist' = [h EXCEPT !.run = "complete"]
       ELSE /\ is_downloading' = downloading
            /\ btn_download' = btn
            /\ UNCHANGED <<video_queue, current_info_map>>
            /\ IF idx \in DOMAIN current_info_map
               THEN /\ ProcessDownloadForInfo(ws, current_info_map[idx], target_qn, idx)
                    /\ hist' = h
               ELSE /\ workers' = Start(ws, InfoWorker(video_queue[idx + 1], idx))
                    /\ hist' = [h EXCEPT !.lookups = @ (+) SetToBag({idx})]

\* MainWindow.start_download (the DOWNLOAD button's slot; the button is inside
\* content_area and is clickable when that is visible and the button enabled)
StartDownload ==
    /\ content_visible
    /\ btn_download
    /\ IF video_queue = <<>>
       THEN UNCHANGED gui_vars
       ELSE /\ \E target_qn \in MainTargets :
                   ProcessNextDownload(0, TRUE, FALSE, workers,
                       [hist EXCEPT !.run = "running", !.run_done = 0,
                                    !.run_failed = 0, !.lookups = EmptyBag],
                       target_qn)
            /\ UNCHANGED <<btn_analyze, content_visible, stats, lbl_stats, events>>

\* WorkerThread.run with target get_video_info (info_worker)
GetVideoInfoRun ==
    \E w \in Running :
        /\ w.kind = "info"
        /\ \E resp \in Resps :
               LET r == GetVideoInfo(w.urls[1], resp) IN
               events' = Append(events,
                   IF r.raised = "none"
                   THEN Event("info_finished", <<>>, r.data, NoPlay, 0, w.idx)
                   ELSE Event("download_error", <<>>, NoInfo, NoPlay, 0, w.idx))
        /\ workers' = Stop(workers, w)
        /\ UNCHANGED <<video_queue, current_info_map, current_download_index,
                       is_downloading, btn_analyze, btn_download, content_visible,
                       stats, lbl_stats, hist>>

\* MainWindow.on_download_info_received
OnDownloadInfoReceived ==
    /\ events # <<>>
    /\ Head(events).sig = "info_finished"
    /\ LET e == Head(events) IN
       /\ current_info_map' =
              [i \in (DOMAIN current_info_map) \cup {current_download_index} |->
                  IF i = current_download_index THEN e.info ELSE current_info_map[i]]
       /\ \E target_qn \in MainTargets :
              ProcessDownloadForInfo(workers, e.info, target_qn, e.idx)
    /\ events' = Tail(events)
    /\ UNCHANGED <<video_queue, current_download_index, is_downloading, btn_analyze,
                   btn_download, content_visible, stats, lbl_stats, hist>>

\* WorkerThread.run with target get_play_url (play_worker)
GetPlayUrlRun ==
    \E w \in Running :
        /\ w.kind = "play"
        /\ \/ \E play_info \in PlayInfos :
                  events' = Append(events,
                      Event("play_finished", <<>>, w.info, play_info, w.target, w.idx))
           \/ events' = Append(events,
                  Event("download_error", <<>>, NoInfo, NoPlay, 0, w.idx))
        /\ workers' = Stop(workers, w)
        /\ UNCHANGED <<video_queue, current_info_map, current_download_index,
                       is_downloading, btn_analyze, btn_download, content_visible,
                       stats, lbl_stats, hist>>


\* on_download_error that starts the next job without advancing the index
OnDownloadErrorRetry(ws, target_qn) ==
    ProcessNextDownload(current_download_index, is_downloading, btn_download, ws,
        [hist EXCEPT !.run_failed = @ + 1], target_qn)

\* on_download_error that gives the run up: no next job is started
OnDownloadErrorAbort(ws, target_qn) ==
    /\ current_download_index' = current_download_index + 1
    /\ workers' = ws
    /\ hist' = [hist EXCEPT !.run_failed = @ + 1]
    /\ UNCHANGED <<video_queue, current_info_map, is_downloading, btn_download>>

\* the body of MainWindow.on_download_error: skip to the next entry
OnDownloadErrorCall(ws, target_qn) ==
    ProcessNextDownload(current_download_index + 1, is_downloading, btn_download, ws,
        [hist EXCEPT !.run_failed = @ + 1], target_qn)

\* MainWindow.on_download_error as the slot of a thread's error signal
OnDownloadError ==
    /\ events # <<>>
    /\ Head(events).sig = "download_error"
    /\ \E target_qn \in MainTargets : OnDownloadErrorCall(workers, target_qn)
    /\ events' = Tail(events)
    /\ UNCHANGED <<btn_analyze, content_visible, stats, lbl_stats>>

\* MainWindow.on_download_finished
OnDownloadFinished ==
    /\ events # <<>>
    /\ Head(events).sig = "dl_finished"
    /\ \E target_qn \in MainTargets :
           ProcessNextDownload(current_download_index + 1, is_downloading,
               btn_download, workers, [hist EXCEPT !.run_done = @ + 1], target_qn)
    /\ events' = Tail(events)
    /\ UNCHANGED <<btn_analyze, content_visible, stats, lbl_stats>>

\* a file of the downloads directory: the file name and what follows it
Path(filename, ext) == [name |-> filename, ext |-> ext]

\* the names n with n.mp4 in the downloads directory (os.path.exists, line
\* 1040); the directory is modelled under SpecFiles and empty elsewhere
ExistingNames ==
    IF pure.op = "files"
    THEN { q.name : q \in { r \in pure.fs : r.ext = "mp4" } }
    ELSE {}

\* MainWindow.on_play_url_received; an empty DASH track list raises IndexError
\* inside the slot, which ends the slot there
OnPlayUrlReceived ==
    /\ events # <<>>
    /\ Head(events).sig = "play_finished"
    /\ LET e == Head(events)
           play_info == e.play
           filename == ChooseFilename(e.info, ExistingNames)
       IN  IF play_info.kind = "dash"
           THEN /\ IF play_info.video = <<>> \/ play_info.audio = <<>>
                   THEN UNCHANGED workers
                   ELSE workers' = Start(workers,
                            DlWorker(e.info, e.idx, "video",
                                DashInfo(play_info, e.target), filename))
                /\ UNCHANGED <<video_queue, current_info_map, current_download_index,
                               is_downloading, btn_download, hist>>
           ELSE IF play_info.kind = "durl"
           THEN /\ workers' = Start(workers,
                        DlWorker(e.info, e.idx, "direct", NoDash, filename))
                /\ UNCHANGED <<video_queue, current_info_map, current_download_index,
                               is_downloading, btn_download, hist>>
           ELSE \E target_qn \in MainTargets : OnDownloadErrorCall(workers, target_qn)
    /\ events' = Tail(events)
    /\ UNCHANGED <<btn_analyze, content_visible, stats, lbl_stats>>

----------------------------------------------------------------------------
(* DownloadWorker.run *)

\* one download_file call of DownloadWorker.run: the progressive transfer, or
\* the video and then the audio transfer of a DASH job; an exception ends run
\* with the error signal
DownloadFileRun ==
    \E w \in Running :
        /\ w.kind = "dl"
        /\ w.phase \in {"direct", "video", "audio"}
        /\ \/ /\ w.phase = "direct"
              /\ workers' = Stop(workers, w)
              /\ events' = Append(events,
                     Event("dl_finished", <<>>, w.info, NoPlay, 0, w.idx))
           \/ /\ w.phase = "video"
              /\ workers' = Start(Stop(workers, w), [w EXCEPT !.phase = "audio"])
              /\ UNCHANGED events
           \/ /\ w.phase = "audio"
              /\ workers' = Start(Stop(workers, w), [w EXCEPT !.phase = "merge"])
              /\ UNCHANGED events
           \/ /\ workers' = Stop(workers, w)
              /\ events' = Append(events,
                     Event("download_error", <<>>, NoInfo, NoPlay, 0, w.idx))
        /\ UNCHANGED <<video_queue, current_info_map, current_download_index,
                       is_downloading, btn_analyze, btn_download, content_visible,
                       stats, lbl_stats, hist>>

\* merge_video_audio inside DownloadWorker.run: ffmpeg exits 0 and run emits
\* finished, or it fails and run emits error("Merge failed: ...")
MergeRun ==
    \E w \in Running :
        /\ w.kind = "dl"
        /\ w.phase = "merge"
        /\ workers' = Stop(workers, w)
        /\ \/ events' = Append(events,
                  Event("dl_finished", <<>>, w.info, NoPlay, 0, w.idx))
           \/ events' = Append(events,
                  Event("download_error", <<>>, NoInfo, NoPlay, 0, w.idx))
        /\ UNCHANGED <<video_queue, current_info_map, current_download_index,
                       is_downloading, btn_analyze, btn_download, content_visible,
                       stats, lbl_stats, hist>>

----------------------------------------------------------------------------
(* The orchestrator: user clicks, threads and slots in any interleaving *)

ClickAnalyze ==
    /\ hist.analyses < MaxAnalyze
    /\ \E lines \in Batches : AnalyzeVideo(lines)
    /\ UNCHANGED pure

Next ==
    \/ ClickAnalyze
    \/ FetchBatchInfoRun /\ UNCHANGED pure
    \/ OnBatchInfoReceived /\ UNCHANGED pure
    \/ StartDownload /\ UNCHANGED pure
    \/ GetVideoInfoRun /\ UNCHANGED pure
    \/ OnDownloadInfoReceived /\ UNCHANGED pure
    \/ GetPlayUrlRun /\ UNCHANGED pure
    \/ OnPlayUrlReceived /\ UNCHANGED pure
    \/ DownloadFileRun /\ UNCHANGED pure
    \/ MergeRun /\ UNCHANGED pure
    \/ OnDownloadFinished /\ UNCHANGED pure
    \/ OnDownloadError /\ UNCHANGED pure

Spec == Init /\ [][Next]_vars

\* Every started thread runs to its end (each blocking call returns or raises)
\* and the event loop delivers every queued signal to its slot; the clicks of
\* the user are not forced.
Fairness ==
    /\ WF_vars(FetchBatchInfoRun /\ UNCHANGED pure)
    /\ WF_vars(OnBatchInfoReceived /\ UNCHANGED pure)
    /\ WF_vars(GetVideoInfoRun /\ UNCHANGED pure)
    /\ WF_vars(OnDownloadInfoReceived /\ UNCHANGED pure)
    /\ WF_vars(GetPlayUrlRun /\ UNCHANGED pure)
    /\ WF_vars(OnPlayUrlReceived /\ UNCHANGED pure)
    /\ WF_vars(DownloadFileRun /\ UNCHANGED pure)
    /\ WF_vars(MergeRun /\ UNCHANGED pure)
    /\ WF_vars(OnDownloadFinished /\ UNCHANGED pure)
    /\ WF_vars(OnDownloadError /\ UNCHANGED pure)

SpecFair == Init /\ [][Next]_vars /\ Fairness

----------------------------------------------------------------------------
(* Claims about the batch run, checked under Spec *)

DownloadKinds == {"info", "play", "dl"}

DownloadSigs == {"info_finished", "play_finished", "dl_finished", "download_error"}

\* the queue indices of the jobs that were started and have not reached a
\* terminal state: a thread of the job runs, or its signal waits for its slot
InFlight ==
    { w.idx : w \in { v \in Running : v.kind \in DownloadKinds } }
    \cup { events[k].idx : k \in { j \in 1..Len(events) : events[j].sig \in DownloadSigs } }

\* the number of running DownloadWorker threads in one of `phases`
DlCount(phases) ==
    LET S == { w \in Running : w.kind = "dl" /\ w.phase \in phases }
    IN  BagCardinality([w \in S |-> CopiesIn(w, workers)])

\* C1: entry N+1 is not started before entry N has reached a terminal state
\* (its finished or error signal was handled): entries N and N+1 are never in
\* flight together.
C1_NextAfterTerminal == \A n \in InFlight : (n + 1) \notin InFlight

\* C2: in every reachable state at most one DownloadWorker is running and at
\* most one merge subprocess is running.
C2_OneTransferOneMerge ==
    /\ DlCount({"direct", "video", "audio", "merge"}) <= 1
    /\ DlCount({"merge"}) <= 1

\* a slot step that handles a job failure: the error signal of a thread, or a
\* playback response without a download URL
FailureHandled ==
    /\ events # <<>>
    /\ events' = Tail(events)
    /\ \/ Head(events).sig = "download_error"
       \/ /\ Head(events).sig = "play_finished"
          /\ Head(events).play.kind \notin {"dash", "durl"}

\* C3: when a failure of a job is handled, the job is counted as failed, the
\* queue index advances by exactly one and the next entry of the queue is
\* processed (a thread is started for it), or the run completes when no entry
\* is left; the failure does not stop the run.
C3_FailureAdvances ==
    [][ FailureHandled =>
          /\ hist'.run_failed = hist.run_failed + 1
          /\ current_download_index' = current_download_index + 1
          /\ IF current_download_index' < Len(video_queue)
             THEN /\ video_queue' = video_queue
                  /\ is_downloading' = is_downloading
                  /\ \E w \in BagToSet(workers') :
                        /\ w.kind \in {"info", "play"}
                        /\ w.idx = current_download_index'
                        /\ CopiesIn(w, workers') = CopiesIn(w, workers) + 1
             ELSE /\ ~is_downloading'
                  /\ hist'.run = "complete"
                  /\ workers' = workers ]_vars

\* C3 witness: a failure was handled and the run went on to the next entry
C3_Witness ==
    /\ is_downloading
    /\ hist.run_failed >= 1
    /\ current_download_index >= 1
    /\ \E w \in Running : w.kind \in {"info", "play"} /\ w.idx = current_download_index

C5_NoJobAfterBatchFailure ==
    hist.batch_failed => ~(content_visible /\ btn_download /\ video_queue # <<>>)

QueueExhausted ==
    /\ events # <<>>
    /\ events' = Tail(events)
    /\ current_download_index' = current_download_index + 1
    /\ current_download_index' >= Len(video_queue)

\* a step that starts a lookup or a stream resolution without handling a
\* signal: the DOWNLOAD button's slot
DownloadStartsJob ==
    /\ events' = events
    /\ \E w \in BagToSet(workers') :
           /\ w.kind \in {"info", "play"}
           /\ CopiesIn(w, workers') > CopiesIn(w, workers)

\* C21: when the queue is exhausted the queue and the metadata map are
\* emptied, the downloading state is left and the button is enabled again;
\* the queue is refilled only by a submit, and on an empty queue the DOWNLOAD
\* button starts no job.
C21_ExhaustionEmptiesQueue ==
    [][ /\ QueueExhausted =>
              /\ video_queue' = <<>>
              /\ current_info_map' = EmptyMap
              /\ ~is_downloading'
              /\ btn_download'
        /\ (video_queue = <<>> /\ video_queue' # <<>>) =>
              hist'.analyses = hist.analyses + 1
        /\ video_queue = <<>> => ~DownloadStartsJob ]_vars

\* C21 witness: a run has completed with a finished job; the button is
\* visible and enabled on the emptied queue
C21_Witness ==
    /\ hist.run = "complete"
    /\ hist.run_done >= 1
    /\ video_queue = <<>>
    /\ current_info_map = EmptyMap
    /\ ~is_downloading
    /\ content_visible /\ btn_download

\* C27: while a run is in progress the job queue and the per-index metadata
\* map are changed only by the run itself (the slots that handle the signals
\* of its jobs), also when the user clicks ANALYZE during the run.
C27_QueueOwnedByRun ==
    [][ (/\ hist.run = "running"
         /\ hist'.run = "running"
         /\ \/ video_queue' # video_queue
            \/ current_info_map' # current_info_map)
        => /\ events # <<>>
           /\ Head(events).sig \in DownloadSigs
           /\ events' = Tail(events) ]_vars

\* C26: when every blocking call returns or fails, every run started on a
\* non-empty queue eventually reaches the queue-exhausted step, with
\* is_downloading false and the DOWNLOAD button enabled again, whatever the
\* playback responses are.
C26_RunCompletes ==
    (hist.run = "running") ~> (hist.run = "complete" /\ ~is_downloading /\ btn_download)

----------------------------------------------------------------------------
(* SpecFiles: the orchestrator of Spec together with the downloads          *)
(* directory. pure.fs holds the files of the directory, pure.done the       *)
(* output files of the jobs of the run in progress that ended with the      *)
(* finished signal, pure.written the files the last step wrote, pure.runs   *)
(* the clicks on DOWNLOAD, at most MaxRuns.                                 *)

MaxRuns == 2

FilesInit ==
    /\ GuiInit
    /\ pure = [op |-> "files", fs |-> {}, done |-> {}, written |-> {}, runs |-> 0]

\* a step that writes no file
NoWrite == pure' = [pure EXCEPT !.written = {}]

\* the DownloadWorker thread that took the step
Ended == CHOOSE w \in Running : CopiesIn(w, workers') < CopiesIn(w, workers)

\* the step queued the error signal of a DownloadWorker
EmittedError ==
    /\ Len(events') > Len(events)
    /\ events'[Len(events')].sig = "download_error"

\* the file a download_file call of DownloadWorker.run writes: filepath,
\* dash_info['v_path'] or dash_info['a_path'] (lines 1077-1084)
TransferPath(w) ==
    Path(w.filename, IF w.phase = "direct" THEN "mp4"
                     ELSE IF w.phase = "video" THEN "video" ELSE "audio")

\* download_file on the directory: open(filepath, 'wb') creates or truncates
\* the file; a call that raises may have raised before or after the open
TransferFiles ==
    LET path == TransferPath(Ended)
    IN  IF EmittedError
        THEN \E wr \in {{}, {path}} :
                 pure' = [pure EXCEPT !.fs = @ \cup wr, !.written = wr]
        ELSE pure' = [pure EXCEPT !.fs = @ \cup {path}, !.written = {path},
                                  !.done = IF Ended.phase = "direct"
                                           THEN @ \cup {path} ELSE @]

\* merge_video_audio (ffmpeg -y ... out_path) and the removal of v_path and
\* a_path on the directory; a failing ffmpeg may have written out_path
MergeFiles ==
    LET out == Path(Ended.filename, "mp4")
    IN  IF EmittedError
        THEN \E wr \in {{}, {out}} :
                 pure' = [pure EXCEPT !.fs = @ \cup wr, !.written = wr]
        ELSE pure' = [pure EXCEPT
                 !.fs = (@ \cup {out}) \ {Path(Ended.filename, "video"),
                                          Path(Ended.filename, "audio")},
                 !.written = {out},
                 !.done = @ \cup {out}]

\* start_download; a run that starts while none is in progress has no
\* earlier job
StartDownloadFiles ==
    /\ pure.runs < MaxRuns
    /\ StartDownload
    /\ pure' = [pure EXCEPT !.runs = @ + 1, !.written = {},
                            !.done = IF is_downloading THEN @ ELSE {}]

ClickAnalyzeFiles ==
    /\ hist.analyses < MaxAnalyze
    /\ \E lines \in Batches : AnalyzeVideo(lines)
    /\ NoWrite

NextFiles ==
    \/ ClickAnalyzeFiles
    \/ FetchBatchInfoRun /\ NoWrite
    \/ OnBatchInfoReceived /\ NoWrite
    \/ StartDownloadFiles
    \/ GetVideoInfoRun /\ NoWrite
    \/ OnDownloadInfoReceived /\ NoWrite
    \/ GetPlayUrlRun /\ NoWrite
    \/ OnPlayUrlReceived /\ NoWrite
    \/ DownloadFileRun /\ TransferFiles
    \/ MergeRun /\ MergeFiles
    \/ OnDownloadFinished /\ NoWrite
    \/ OnDownloadError /\ NoWrite

SpecFiles == FilesInit /\ [][NextFiles]_vars

\* C28: within one run no job writes an output or intermediate file to a path
\* that holds the output file of an earlier job of the run that ended Done.
C28_NoOverwriteOfDone ==
    [][pure'.written \cap pure.done = {}]_vars

----------------------------------------------------------------------------
(* SpecSubmit: analyze_video applied to every submission of up to MaxLines    *)
(* lines, in a fresh window or after an earlier analysis of PriorLines       *)

LX2 == <<"x", " ">>     \* LX with a trailing blank

SubmitLines == {LA1, LA2, LB, LX, LX2, LBlank, <<>>}

Submissions == UNION { [1..k -> SubmitLines] : k \in 0..MaxLines }

\* what an earlier ANALYZE click submitted
PriorLines == <<LB, LA1>>

SubmitInit ==
    /\ GuiInit
    /\ pure \in { [op |-> "submit", lines |-> l, done |-> FALSE,
                   before |-> [queue |-> <<>>,
                               stats |-> [set |-> FALSE, total_input |-> 0,
                                          duplicates |-> 0]]] : l \in Submissions }

PriorAnalyze ==
    /\ ~pure.done
    /\ hist.analyses < 1
    /\ AnalyzeVideo(PriorLines)
    /\ UNCHANGED pure

PriorFetch == ~pure.done /\ FetchBatchInfoRun /\ UNCHANGED pure

PriorReceived == ~pure.done /\ OnBatchInfoReceived /\ UNCHANGED pure

\* the ANALYZE click under study: analyze_video on pure.lines
SubmitCall ==
    /\ ~pure.done
    /\ AnalyzeVideo(pure.lines)
    /\ pure' = [pure EXCEPT !.done = TRUE,
                            !.before = [queue |-> video_queue, stats |-> stats]]

NextSubmit == PriorAnalyze \/ PriorFetch \/ PriorReceived \/ SubmitCall

SpecSubmit == SubmitInit /\ [][NextSubmit]_vars

\* the lines of a submission that are not empty after trimming
NonBlank(lines) == { i \in 1..Len(lines) : Strip(lines[i]) # <<>> }

\* the deduplication key of a line: the identifier extracted from the trimmed
\* line, or the trimmed line when none is extracted
KeyOf(line) ==
    LET t == Strip(line)
        id == ExtractBvid(t)
    IN  IF id = None THEN t ELSE id

\* the non-blank lines that are the first to carry their key
Firsts(lines) ==
    { i \in NonBlank(lines) :
        \A j \in NonBlank(lines) : j < i => KeyOf(lines[j]) # KeyOf(lines[i]) }

\* the trimmed lines at the positions I, in input order, from position i on
RECURSIVE Pick(_, _, _)
Pick(lines, I, i) ==
    IF i > Len(lines)
    THEN <<>>
    ELSE (IF i \in I THEN <<Strip(lines[i])>> ELSE <<>>) \o Pick(lines, I, i + 1)

QueueAsSpecified(lines) ==
    /\ video_queue = Pick(lines, Firsts(lines), 1)
    /\ stats.duplicates = Cardinality(NonBlank(lines)) - Len(video_queue)

\* C7 as claimed: after submit, for every sequence of input lines, the queue
\* holds the first line of every distinct key in first-occurrence order, blank
\* lines are dropped, and duplicatesRemoved is the number of non-blank lines
\* minus the queue length.
C7_QueueIsFirstOccurrences == pure.done => QueueAsSpecified(pure.lines)

\* C7 as amended: the same for every submission with at least one non-blank
\* line; a submission of blank lines only leaves the queue and the counters as
\* they were.
C7_QueueIsFirstOccurrencesUnlessBlank ==
    pure.done =>
        IF NonBlank(pure.lines) # {}
        THEN QueueAsSpecified(pure.lines)
        ELSE video_queue = pure.before.queue /\ stats = pure.before.stats

\* C7 witness: identifier, URL of the same video, another identifier
C7_Witness ==
    /\ pure.done
    /\ pure.lines = <<LA1, LA2, LB>>
    /\ video_queue = <<LA1, LB>>
    /\ stats.duplicates = 1

----------------------------------------------------------------------------
(* SpecExtract: _extract_bvid and get_video_info on every text of up to      *)
(* MaxTextLen characters and every answer of the platform                    *)

Chars == {"B", "V", "1", "_", "/"}

Texts == UNION { [1..k -> Chars] : k \in 0..MaxTextLen }

NoResult == [requests |-> 0, raised |-> "none", data |-> NoInfo]

ExtractInit ==
    /\ GuiInit
    /\ pure \in { [op |-> "extract", text |-> t, resp |-> r, done |-> FALSE,
                   bvid |-> None, out |-> NoResult] : t \in Texts, r \in Resps }

\* one call of _extract_bvid(text) and one of get_video_info(text)
GetVideoInfoCall ==
    /\ ~pure.done
    /\ pure' = [pure EXCEPT !.done = TRUE,
                            !.bvid = ExtractBvid(pure.text),
                            !.out = GetVideoInfo(pure.text, pure.resp)]
    /\ UNCHANGED gui_vars

NextExtract == GetVideoInfoCall

SpecExtract == ExtractInit /\ [][NextExtract]_vars

\* a canonical identifier: BV followed by a non-empty run of letters and digits
IsValidId(x) ==
    /\ Len(x) >= 3
    /\ x[1] = "B" /\ x[2] = "V"
    /\ \A i \in 3..Len(x) : x[i] \in AlnumChars

\* where identifiers are embedded in a text: <<first, last>> positions
Embedded(text) ==
    { se \in (1..Len(text)) \X (1..Len(text)) :
        se[1] <= se[2] /\ IsValidId(SubSeq(text, se[1], se[2])) }

\* no BV followed by a letter, digit or underscore begins before position s
NothingEarlier(text, s) ==
    \A p \in 1..(s - 1) :
        ~(p + 2 <= Len(text) /\ text[p] = "B" /\ text[p + 1] = "V"
          /\ text[p + 2] \in WordChars)

\* the character after position e, if any, is no letter, digit or underscore
EndsRun(text, e) == e = Len(text) \/ text[e + 1] \notin WordChars

C9_InvalidReferenceOrOneLookup ==
    pure.done =>
        IF MatchStarts(pure.text) = {} /\ ~StartsWithBV(pure.text)
        THEN pure.out.raised = "ValueError" /\ pure.out.requests = 0
        ELSE /\ pure.out.requests = 1
             /\ pure.out.raised # "ValueError"
             /\ pure.resp = "api_error" => pure.out.raised = "ApiError"

\* C9 witness: the prefix alone has no match but starts with the prefix: one
\* request, and the API error of the platform
C9_Witness ==
    /\ pure.done
    /\ pure.text = <<"B", "V">>
    /\ pure.resp = "api_error"
    /\ pure.out.requests = 1
    /\ pure.out.raised = "ApiError"

----------------------------------------------------------------------------
(* SpecSelect: the video selection of on_play_url_received on every list of  *)
(* up to MaxTracks tracks and every target                                   *)

TrackSet ==
    { Track(127, "u127"), Track(120, "u120"), Track(80, "u80avc"),
      Track(80, "u80hev"), Track(64, "u64") }

TrackLists == UNION { [1..k -> TrackSet] : k \in 1..MaxTracks }

SelectTargets == {10, 64, 80, 100, 127, Highest}

SelectInit ==
    /\ GuiInit
    /\ pure \in { [op |-> "select", tracks |-> t, target |-> q, done |-> FALSE,
                   out |-> Track(0, "")] : t \in TrackLists, q \in SelectTargets }

\* lines 1052-1067 on play_info['dash']['video'] = pure.tracks
SelectVideoCall ==
    /\ ~pure.done
    /\ pure' = [pure EXCEPT !.done = TRUE,
                            !.out = SelectVideo(pure.tracks, pure.target)]
    /\ UNCHANGED gui_vars

NextSelect == SelectVideoCall

SpecSelect == SelectInit /\ [][NextSelect]_vars

Max(S) == CHOOSE x \in S : \A y \in S : x >= y

\* C10: with the "highest" sentinel the selected track has the maximum
\* qualityId; with an integer target it has the greatest qualityId <= target
\* when there is one, and the minimum qualityId otherwise.
C10_NearestAtOrBelow ==
    pure.done =>
        LET ids == { pure.tracks[i].id : i \in 1..Len(pure.tracks) }
            below == { q \in ids : q <= pure.target }
        IN  /\ \E i \in 1..Len(pure.tracks) : pure.tracks[i] = pure.out
            /\ pure.out.id = IF pure.target = Highest THEN Max(ids)
                             ELSE IF below # {} THEN Max(below)
                             ELSE Min(ids)

\* C10 witness: tracks [127,120,80,64] and the unavailable target 100 give 80
C10_Witness ==
    /\ pure.done
    /\ Len(pure.tracks) = 4
    /\ [i \in 1..4 |-> pure.tracks[i].id] = <<127, 120, 80, 64>>
    /\ pure.target = 100
    /\ pure.out.id = 80

\* the positions of pure.tracks that hold the qualityId of the selected track
TierOfOut == { i \in 1..Len(pure.tracks) : pure.tracks[i].id = pure.out.id }

\* the target is an integer below every listed qualityId (lines 1065-1066)
BelowAll ==
    /\ pure.target # Highest
    /\ \A i \in 1..Len(pure.tracks) : pure.tracks[i].id > pure.target

\* C30 as stated: among the tracks that share the selected qualityId the
\* selection always returns the one the response listed first, and a second
\* selection on the same response with the same target returns the same track.
C30_FirstListedAlways ==
    pure.done =>
        /\ pure.out = pure.tracks[Min(TierOfOut)]
        /\ SelectVideo(SortDesc(pure.tracks), pure.target) = pure.out

\* C30: among the tracks that share the selected qualityId the selection
\* returns the one the response listed first when the target is the "highest"
\* sentinel or some track is at or below the target, and the one listed last
\* when the target is below every track; a second selection on the same
\* response (whose list the first one sorted in place) with the same target
\* returns the same track.
C30_FirstListedOfTier ==
    pure.done =>
        /\ pure.out = pure.tracks[IF BelowAll THEN Max(TierOfOut) ELSE Min(TierOfOut)]
        /\ SelectVideo(SortDesc(pure.tracks), pure.target) = pure.out

\* C30 witness: the lowest tier is listed in two codecs around a higher track
\* and the target is below it
C30_Witness ==
    /\ pure.done
    /\ pure.tracks = <<Track(80, "u80avc"), Track(127, "u127"), Track(80, "u80hev")>>
    /\ pure.target = 10
    /\ pure.out = Track(80, "u80hev")

----------------------------------------------------------------------------
(* SpecName: the output file name of on_play_url_received on every title of  *)
(* up to MaxTitleLen characters and every set of files already in the        *)
(* downloads directory, numbered up to MaxCopies                             *)

MaxTitleLen == 2
MaxCopies == 2

\* characters a title is made of here: a letter, a space, a separator
TitleChars == {"a", " ", "/"}

Titles == UNION { [1..k -> TitleChars] : k \in 0..MaxTitleLen }

\* names a directory may already hold: the bases and their numbered copies
NameBases == {<<"a">>, LA1}

DirNames ==
    NameBases \cup { Numbered(b, k) : b \in NameBases, k \in 1..MaxCopies }

NameInit ==
    /\ GuiInit
    /\ pure \in { [op |-> "name", info |-> [title |-> t, bvid |-> LA1],
                   existing |-> e, done |-> FALSE, filename |-> <<>>] :
                  t \in Titles, e \in SUBSET DirNames }

\* lines 1030-1042 on info = pure.info, the directory holding pure.existing
ChooseFilenameCall ==
    /\ ~pure.done
    /\ pure' = [pure EXCEPT !.done = TRUE,
                            !.filename = ChooseFilename(pure.info, pure.existing)]
    /\ UNCHANGED gui_vars

NextName == ChooseFilenameCall

SpecName == NameInit /\ [][NextName]_vars

\* the characters of a title that are letters, digits or spaces, in order,
\* without the trailing spaces; the identifier when that is empty
NameBase ==
    LET kept == SelectSeq(pure.info.title, LAMBDA c : c \in {"a", " "})
        last == { i \in 1..Len(kept) : kept[i] # " " }
        text == IF last = {} THEN <<>> ELSE SubSeq(kept, 1, Max(last))
    IN  IF text = <<>> THEN pure.info.bvid ELSE text

\* C22: the chosen name is the sanitized title (the identifier when that is
\* empty) if no file of that name exists, and otherwise that base followed by
\* (k) for the smallest k >= 1 for which no file exists; the chosen name never
\* names a file that exists when it is chosen.
C22_SmallestFreeName ==
    pure.done =>
        /\ pure.filename \notin pure.existing
        /\ NameBase \notin pure.existing => pure.filename = NameBase
        /\ NameBase \in pure.existing =>
               \E k \in 1..(MaxCopies + 1) :
                   /\ pure.filename = NameBase \o <<"(">> \o <<DigitChars[k + 1]>> \o <<")">>
                   /\ \A j \in 1..(k - 1) :
                          NameBase \o <<"(">> \o <<DigitChars[j + 1]>> \o <<")">>
                              \in pure.existing

\* C22 witness: the title sanitizes to nothing, and the identifier and its
\* first copy exist
C22_Witness ==
    /\ pure.done
    /\ pure.info.title = <<"/", " ">>
    /\ pure.existing = {LA1, Numbered(LA1, 1), <<"a">>}
    /\ pure.filename = <<"B", "V", "1", "(", "2", ")">>

----------------------------------------------------------------------------
(* SpecAudio: the DASH selection of on_play_url_received for two video       *)
(* targets on the same response, on every list of up to MaxTracks audio      *)
(* tracks                                                                    *)

AudioSet ==
    { Track(30216, "a16"), Track(30232, "a32"), Track(30280, "a80"),
      Track(30280, "a80b") }

AudioLists == UNION { [1..k -> AudioSet] : k \in 1..MaxTracks }

AudioVideo == <<Track(64, "u64"), Track(80, "u80")>>

AudioTargets == {64, 80, Highest}

AudioInit ==
    /\ GuiInit
    /\ pure \in { [op |-> "audio", audio |-> a, t1 |-> q1, t2 |-> q2,
                   done |-> FALSE, sel |-> Track(0, ""),
                   out1 |-> NoDash, out2 |-> NoDash] :
                  a \in AudioLists, q1 \in AudioTargets, q2 \in AudioTargets }

\* lines 1048-1080 on the same response with target_qn = t1 and with t2
DashInfoCall ==
    /\ ~pure.done
    /\ LET play_info == [kind |-> "dash", video |-> AudioVideo, audio |-> pure.audio]
       IN  pure' = [pure EXCEPT !.done = TRUE,
                                !.sel = SelectAudio(pure.audio),
                                !.out1 = DashInfo(play_info, pure.t1),
                                !.out2 = DashInfo(play_info, pure.t2)]
    /\ UNCHANGED gui_vars

NextAudio == DashInfoCall

SpecAudio == AudioInit /\ [][NextAudio]_vars

\* C11: the selected audio track is one of the response's audio tracks with
\* the maximum qualityId, and it is the same for any two video targets.
C11_AudioIsHighest ==
    pure.done =>
        /\ \E i \in 1..Len(pure.audio) : pure.audio[i] = pure.sel
        /\ pure.sel.id = Max({ pure.audio[i].id : i \in 1..Len(pure.audio) })
        /\ pure.out1.audio_url = pure.sel.base_url
        /\ pure.out2.audio_url = pure.out1.audio_url

\* C11 witness: the highest audio track is listed last, and the two video
\* targets select different video tracks
C11_Witness ==
    /\ pure.done
    /\ [i \in 1..Len(pure.audio) |-> pure.audio[i].id] = <<30216, 30280>>
    /\ pure.out1.video_url # pure.out2.video_url
    /\ pure.out1.audio_url = "a80"
    /\ pure.out2.audio_url = "a80"

----------------------------------------------------------------------------
(* SpecWorker: one DownloadWorker.run, with download_file chunk by chunk.   *)
(* Sizes are in units of half a block (512 bytes): a chunk of iter_content  *)
(* has 1 or 2 units, the declared content-length 0 (absent) to MaxTotal.    *)
(* A progress value is the exact fraction [n, d] = n / d of the float the   *)
(* code computes; float rounding is monotone, so it keeps the order.        *)

Rat(n, d) == [n |-> n, d |-> d]

Leq(a, b) == a.n * b.d <= b.n * a.d

Hundred == Rat(100, 1)

IsHundred(a) == a.n = 100 * a.d

ChunkSizes == {1, 2}

Totals == 0..MaxTotal

\* the sub-range of a transfer: _progress_callback_factory(0, 50) and (50, 95)
\* of DownloadWorker.run, and _progress_callback (0 to 100) of a direct job
StageRange(stage) ==
    IF stage = "video" THEN [start |-> 0, end |-> 50]
    ELSE IF stage = "audio" THEN [start |-> 50, end |-> 95]
    ELSE [start |-> 0, end |-> 100]

\* callback(current, total): p = start + (current / total) * (end - start)
ProgressValue(start, end, current, total) ==
    Rat(start * total + current * (end - start), total)

\* the file a stage writes: v_path, a_path or filepath
StageFile(stage) ==
    IF stage = "video" THEN "v_path"
    ELSE IF stage = "audio" THEN "a_path"
    ELSE "filepath"

\* what follows a transfer that returned, in DownloadWorker.run
AfterTransfer(stage) ==
    IF stage = "video" THEN [stage |-> "audio", sub |-> "get"]
    ELSE IF stage = "audio" THEN [stage |-> "merge", sub |-> "call"]
    ELSE [stage |-> "emit", sub |-> "call"]

WorkerKinds == {"dash", "direct"}

WorkerInit ==
    /\ GuiInit
    /\ pure \in { [op |-> "worker", is_dash |-> (k = "dash"),
                   stage |-> IF k = "dash" THEN "video" ELSE "direct",
                   sub |-> "get",
                   total_size |-> 0, wrote |-> 0, fsize |-> 0, chunks |-> 0,
                   calls |-> 0, reported |-> <<>>,
                   files |-> {}, removed |-> {}, progress |-> <<>>, log |-> <<>>,
                   signals |-> <<>>] : k \in WorkerKinds }

\* a byte counter that counts chunks instead of bytes
WroteAfterCount(wrote, chunk_len) == wrote + 1

\* core.py line 158: wrote += len(chunk)
WroteAfter(wrote, chunk_len) == wrote + chunk_len

\* a clean-up that leaves the file in place
RemoveSkipped(files, path) == files

\* gui.py lines 161-162: if os.path.exists(path): os.remove(path)
RemoveIfExists(files, path) == files \ {path}

\* an exception that leaves the transfer and continues with the next stage
RaiseAndContinue(w, stage) ==
    [w EXCEPT !.stage = AfterTransfer(stage).stage,
              !.sub = AfterTransfer(stage).sub,
              !.log = Append(w.log, <<stage, "failed">>)]

\* an exception in download_file: the outer `except` of run emits error
RaiseInTransfer(w, stage) ==
    [w EXCEPT !.stage = "done", !.sub = "end",
              !.log = Append(w.log, <<stage, "failed">>),
              !.signals = Append(w.signals, "error")]

\* download_file up to the loop: session.get, the content-length header,
\* makedirs and open(filepath, 'wb'); any of them may raise
DownloadFileOpen ==
    /\ pure.op = "worker"
    /\ pure.stage \in {"video", "audio", "direct"}
    /\ pure.sub = "get"
    /\ LET started == [pure EXCEPT !.log = Append(pure.log, <<pure.stage, "start">>)]
       IN  \/ pure' = RaiseInTransfer(started, pure.stage)
           \/ \E total \in Totals :
                  pure' = [started EXCEPT !.sub = "body",
                                          !.total_size = total,
                                          !.wrote = 0, !.fsize = 0,
                                          !.chunks = 0, !.calls = 0,
                                          !.reported = <<>>,
                                          !.files = @ \cup {StageFile(pure.stage)}]
    /\ UNCHANGED gui_vars

\* one iteration of the loop of download_file: a chunk is written and, with a
\* declared content-length, progress_callback(wrote, total_size) is called
DownloadFileChunk ==
    /\ pure.op = "worker"
    /\ pure.sub = "body"
    /\ pure.chunks < MaxChunks
    /\ \E size \in ChunkSizes :
           LET wrote == WroteAfter(pure.wrote, size)
               r == StageRange(pure.stage)
           IN  pure' = [pure EXCEPT
                   !.wrote = wrote,
                   !.fsize = @ + size,
                   !.chunks = @ + 1,
                   !.calls = IF pure.total_size > 0 THEN @ + 1 ELSE @,
                   !.reported = IF pure.total_size > 0
                                THEN Append(@, [bytesWritten |-> wrote,
                                                totalBytes |-> pure.total_size,
                                                onDisk |-> pure.fsize + size])
                                ELSE @,
                   !.progress = IF pure.total_size > 0
                                THEN Append(@, ProgressValue(r.start, r.end, wrote,
                                                             pure.total_size))
                                ELSE @]
    /\ UNCHANGED gui_vars

\* the body ends: download_file returns, or iter_content raises
DownloadFileEnd ==
    /\ pure.op = "worker"
    /\ pure.sub = "body"
    /\ \/ pure' = RaiseInTransfer(pure, pure.stage)
       \/ LET next == AfterTransfer(pure.stage)
          IN  pure' = [pure EXCEPT !.stage = next.stage, !.sub = next.sub,
                                   !.log = Append(@, <<pure.stage, "done">>)]
    /\ UNCHANGED gui_vars

\* merge_video_audio: ffmpeg writes the output and exits 0, or check_call
\* raises (with or without an output file) and run emits error("Merge failed")
MergeVideoAudio ==
    /\ pure.op = "worker"
    /\ pure.stage = "merge"
    /\ LET started == [pure EXCEPT !.log = Append(pure.log, <<"merge", "start">>)]
       IN  \/ pure' = [started EXCEPT !.stage = "rm_v",
                                      !.files = @ \cup {"filepath"},
                                      !.log = Append(@, <<"merge", "done">>)]
           \/ \E out \in SUBSET {"filepath"} :
                  pure' = [started EXCEPT !.stage = "done", !.sub = "end",
                                          !.files = @ \cup out,
                                          !.log = Append(@, <<"merge", "failed">>),
                                          !.signals = Append(@, "error")]
    /\ UNCHANGED gui_vars

\* `if os.path.exists(p): os.remove(p)` for v_path and then a_path; os.remove
\* may raise, which the inner `except` reports as error("Merge failed")
RemoveIntermediate ==
    /\ pure.op = "worker"
    /\ pure.stage \in {"rm_v", "rm_a"}
    /\ LET f == IF pure.stage = "rm_v" THEN "v_path" ELSE "a_path"
           next == IF pure.stage = "rm_v" THEN "rm_a" ELSE "emit"
       IN  \/ pure' = [pure EXCEPT !.stage = next,
                                    !.files = RemoveIfExists(@, f),
                                    !.removed = @ \cup (pure.files
                                                         \ RemoveIfExists(pure.files, f))]
           \/ /\ f \in pure.files
              /\ pure' = [pure EXCEPT !.stage = "done", !.sub = "end",
                                      !.log = Append(@, <<"remove", "failed">>),
                                      !.signals = Append(@, "error")]
    /\ UNCHANGED gui_vars

\* the end of run: progress.emit(100) of a DASH job, and finished.emit
EmitFinished ==
    /\ pure.op = "worker"
    /\ pure.stage = "emit"
    /\ pure' = [pure EXCEPT !.stage = "done", !.sub = "end",
                            !.progress = IF pure.is_dash THEN Append(@, Hundred) ELSE @,
                            !.log = Append(@, <<"job", "finished">>),
                            !.signals = Append(@, "finished")]
    /\ UNCHANGED gui_vars

NextWorker ==
    \/ DownloadFileOpen
    \/ DownloadFileChunk
    \/ DownloadFileEnd
    \/ MergeVideoAudio
    \/ RemoveIntermediate
    \/ EmitFinished

SpecWorker == WorkerInit /\ [][NextWorker]_vars

\* positions of an entry in the log of the job
LogPos(stage, what) == { i \in 1..Len(pure.log) : pure.log[i] = <<stage, what>> }

Logged(stage, what) == LogPos(stage, what) # {}

Before(stage1, what1, stage2, what2) ==
    \A j \in LogPos(stage2, what2) : \E i \in LogPos(stage1, what1) : i < j

\* C12: in a DASH job the audio transfer starts only after the video transfer
\* completed and the merge only after the audio transfer completed; after a
\* failed video transfer no audio transfer and no merge is attempted, after a
\* failed audio transfer no merge.
C12_VideoAudioMerge ==
    pure.is_dash =>
        /\ Before("video", "done", "audio", "start")
        /\ Before("audio", "done", "merge", "start")
        /\ Logged("video", "failed") =>
               ~Logged("audio", "start") /\ ~Logged("merge", "start")
        /\ Logged("audio", "failed") => ~Logged("merge", "start")

\* C12 witness: a DASH job whose audio transfer failed after chunks of both
\* transfers were written
C12_Witness ==
    /\ pure.is_dash
    /\ pure.stage = "done"
    /\ Logged("video", "done")
    /\ Logged("audio", "failed")
    /\ pure.wrote > 0
    /\ pure.signals = <<"error">>

\* C13: the progress values of a DASH job never decrease, and 100 is reported
\* only after the merge completed.
C13_ProgressMonotone ==
    pure.is_dash =>
        /\ \A i, j \in 1..Len(pure.progress) :
               i < j => Leq(pure.progress[i], pure.progress[j])
        /\ (\E i \in 1..Len(pure.progress) : IsHundred(pure.progress[i]))
               => Logged("merge", "done")

\* C23: download_file calls progress_callback(wrote, total_size) exactly once
\* after each chunk written when the response declares a content-length and
\* never when it does not; across one download the reported byte count never
\* decreases and equals the number of bytes written to the file so far.
C23_CallbackPerChunk ==
    /\ Len(pure.reported) = pure.calls
    /\ pure.total_size > 0 => pure.calls = pure.chunks
    /\ pure.total_size = 0 => pure.calls = 0
    /\ \A i \in 1..Len(pure.reported) :
           /\ pure.reported[i].bytesWritten = pure.reported[i].onDisk
           /\ pure.reported[i].totalBytes = pure.total_size
           /\ i > 1 => pure.reported[i - 1].bytesWritten <= pure.reported[i].bytesWritten
    /\ pure.reported # <<>> =>
           pure.reported[Len(pure.reported)].bytesWritten = pure.fsize

\* C23 witness: two chunks of different sizes written in the audio transfer
\* of a response that declares a content-length
C23_Witness ==
    /\ pure.stage = "audio"
    /\ pure.sub = "body"
    /\ pure.total_size = 2
    /\ pure.chunks = 2
    /\ pure.fsize = 3
    /\ Len(pure.reported) = 2
    /\ pure.reported[1].bytesWritten = 2
    /\ pure.reported[2].bytesWritten = 3

\* the job failed in a transfer or in the merge
FailedInTransferOrMerge ==
    \/ Logged("video", "failed")
    \/ Logged("audio", "failed")
    \/ Logged("merge", "failed")

\* C24: when a DASH job is reported finished neither intermediate file exists,
\* both having been deleted before the report; after a DASH job failed in a
\* transfer or in the merge, no file written by the job has been deleted.
C24_IntermediateFiles ==
    pure.is_dash =>
        /\ (\E i \in 1..Len(pure.signals) : pure.signals[i] = "finished") =>
               /\ "v_path" \notin pure.files
               /\ "a_path" \notin pure.files
               /\ pure.removed = {"v_path", "a_path"}
        /\ pure.stage = "emit" => {"v_path", "a_path"} \cap pure.files = {}
        /\ FailedInTransferOrMerge => pure.removed = {}

\* C24 witness: a DASH job reported finished, its output the only file left
C24_Witness ==
    /\ pure.is_dash
    /\ pure.stage = "done"
    /\ pure.signals = <<"finished">>
    /\ pure.files = {"filepath"}
    /\ pure.removed = {"v_path", "a_path"}

\* C24 witness of the failure side: the merge failed after both transfers
\* wrote their files, and nothing was deleted
C24_FailedWitness ==
    /\ pure.is_dash
    /\ pure.stage = "done"
    /\ Logged("merge", "failed")
    /\ pure.files = {"v_path", "a_path"}
    /\ pure.removed = {}

\* C25: every progress value reported during the video transfer of a DASH job
\* lies in [0, 50] and every value reported during its audio transfer lies in
\* [50, 95], for every sequence of chunks and every declared content-length.
C25_ProgressInRange ==
    (pure.is_dash /\ pure.sub = "body" /\ pure.calls > 0) =>
        LET p == pure.progress[Len(pure.progress)]
            r == StageRange(pure.stage)
        IN  /\ Leq(Rat(r.start, 1), p)
            /\ Leq(p, Rat(r.end, 1))

----------------------------------------------------------------------------
(* BiliAuthenticator and the cookie persistence of BiliDownloader.          *)
(* A challenge key is a non-empty text, as the platform issues it; the      *)
(* session cookie jar is the credential it holds, or NoCred when empty; the *)
(* cookie file is absent (NoFile) or holds a pickled jar.                   *)

Keys == { <<"k", "1">>, <<"k", "2">> }

NoCred == "none"

Creds == {"u1", "u2"}

NoFile == "absent"

\* answers to the qrcode/generate request: no answer, or a JSON body
GenResps ==
    { [kind |-> "transport", code |-> 0, key |-> None] }
    \cup { [kind |-> "json", code |-> c, key |-> k] : c \in {0, -1}, k \in Keys }

\* answers to the qrcode/poll request: data['code'] with its message, and
\* inside a 0 envelope data['data']['code'] with data['data']['message']
PollResps ==
    { [kind |-> "transport", code |-> 0, message |-> "", dcode |-> 0,
       dmessage |-> "", cred |-> NoCred] }
    \cup { [kind |-> "json", code |-> -412, message |-> m, dcode |-> 0,
            dmessage |-> "", cred |-> NoCred] : m \in {"blocked"} }
    \cup { [kind |-> "json", code |-> 0, message |-> "0", dcode |-> c,
            dmessage |-> m, cred |-> NoCred] :
           c \in {86101, 86090, 86038, -400}, m \in {"m1", "m2"} }
    \cup { [kind |-> "json", code |-> 0, message |-> "0", dcode |-> 0,
            dmessage |-> m, cred |-> u] : m \in {"m1"}, u \in Creds }

\* get_login_qrcode that stores the key of the answer before testing its code
GetLoginQrcodeStoreFirst(qrcode_key, resp) ==
    IF resp.kind = "transport"
    THEN [qrcode_key |-> qrcode_key, raised |-> TRUE, requests |-> 1]
    ELSE [qrcode_key |-> resp.key, raised |-> resp.code # 0, requests |-> 1]

\* BiliAuthenticator.get_login_qrcode with self.qrcode_key = qrcode_key
GetLoginQrcode(qrcode_key, resp) ==
    IF resp.kind = "transport"
    THEN [qrcode_key |-> qrcode_key, raised |-> TRUE, requests |-> 1]
    ELSE IF resp.code = 0
    THEN [qrcode_key |-> resp.key, raised |-> FALSE, requests |-> 1]
    ELSE [qrcode_key |-> qrcode_key, raised |-> TRUE, requests |-> 1]

NoReturn == [code |-> -2, msg |-> ""]

\* poll_login_status without the test of self.qrcode_key
PollLoginStatusNoGuard(qrcode_key, resp) ==
    IF resp.kind = "transport"
    THEN [requests |-> 1, raised |-> TRUE, ret |-> NoReturn]
    ELSE IF resp.code = 0
    THEN [requests |-> 1, raised |-> FALSE,
          ret |-> IF resp.dcode = 0 THEN [code |-> 0, msg |-> "Login Success"]
                  ELSE [code |-> resp.dcode, msg |-> resp.dmessage]]
    ELSE [requests |-> 1, raised |-> FALSE, ret |-> [code |-> -1, msg |-> "Unknown Error"]]

\* poll_login_status that reports every code but 0 as -1, "Unknown Error"
PollLoginStatusUnknown(qrcode_key, resp) ==
    IF Falsy(qrcode_key)
    THEN [requests |-> 0, raised |-> TRUE, ret |-> NoReturn]
    ELSE IF resp.kind = "transport"
    THEN [requests |-> 1, raised |-> TRUE, ret |-> NoReturn]
    ELSE IF resp.code = 0 /\ resp.dcode = 0
    THEN [requests |-> 1, raised |-> FALSE, ret |-> [code |-> 0, msg |-> "Login Success"]]
    ELSE [requests |-> 1, raised |-> FALSE, ret |-> [code |-> -1, msg |-> "Unknown Error"]]

\* BiliAuthenticator.poll_login_status with self.qrcode_key = qrcode_key
PollLoginStatus(qrcode_key, resp) ==
    IF Falsy(qrcode_key)
    THEN [requests |-> 0, raised |-> TRUE, ret |-> NoReturn]
    ELSE IF resp.kind = "transport"
    THEN [requests |-> 1, raised |-> TRUE, ret |-> NoReturn]
    ELSE IF resp.code = 0
    THEN [requests |-> 1, raised |-> FALSE,
          ret |-> IF resp.dcode = 0 THEN [code |-> 0, msg |-> "Login Success"]
                  ELSE [code |-> resp.dcode, msg |-> resp.dmessage]]
    ELSE [requests |-> 1, raised |-> FALSE, ret |-> [code |-> -1, msg |-> "Unknown Error"]]

\* the session cookies after the poll request: a successful login answer sets
\* the credential cookies ("cookies are already in session")
JarAfterPoll(jar, qrcode_key, resp) ==
    IF ~Falsy(qrcode_key) /\ resp.kind = "json" /\ resp.code = 0 /\ resp.dcode = 0
    THEN resp.cred ELSE jar

\* BiliDownloader.save_cookies; `ok` is whether open and pickle.dump succeed
SaveCookies(jar, file, ok) == IF ok THEN jar ELSE file

\* BiliDownloader.load_cookies: session.cookies.update(pickle.load(f))
LoadCookies(jar, file) == IF file \in Creds THEN file ELSE jar

\* BiliDownloader.logout; `ok` is whether os.remove succeeds
Logout(jar, file, ok) ==
    [jar |-> NoCred, file |-> IF file # NoFile /\ ok THEN NoFile ELSE file]

----------------------------------------------------------------------------
(* SpecAuth: the operations of BiliAuthenticator and of the cookie store    *)
(* called in any order, with every answer of the platform and of the file   *)
(* system                                                                   *)

NoGenResp == [kind |-> "none", code |-> 0, key |-> None]

NoPollResp ==
    [kind |-> "none", code |-> 0, message |-> "", dcode |-> 0, dmessage |-> "",
     cred |-> NoCred]

NoCall ==
    [call |-> "init", gresp |-> NoGenResp, presp |-> NoPollResp, ok |-> TRUE,
     requests |-> 0, raised |-> FALSE, ret |-> NoReturn, key_before |-> None]

\* BiliDownloader.__init__: the authenticator without a key, and load_cookies
AuthInit ==
    /\ GuiInit
    /\ pure \in { [op |-> "auth", qrcode_key |-> None,
                   jar |-> LoadCookies(NoCred, f), file |-> f,
                   generated |-> FALSE, terminal |-> FALSE, last |-> NoCall] :
                  f \in {NoFile} \cup Creds }

AuthGenerate ==
    /\ pure.op = "auth"
    /\ \E resp \in GenResps :
           LET r == GetLoginQrcode(pure.qrcode_key, resp)
           IN  pure' = [pure EXCEPT
                   !.qrcode_key = r.qrcode_key,
                   !.generated = @ \/ ~r.raised,
                   !.terminal = @ /\ r.raised,
                   !.last = [NoCall EXCEPT !.call = "generate", !.gresp = resp,
                                           !.requests = r.requests,
                                           !.raised = r.raised,
                                           !.key_before = pure.qrcode_key]]
    /\ UNCHANGED gui_vars

AuthPoll ==
    /\ pure.op = "auth"
    /\ \E resp \in PollResps :
           LET r == PollLoginStatus(pure.qrcode_key, resp)
           IN  pure' = [pure EXCEPT
                   !.jar = JarAfterPoll(pure.jar, pure.qrcode_key, resp),
                   !.terminal = @ \/ (~r.raised /\ r.ret.code \in {0, 86038}),
                   !.last = [NoCall EXCEPT !.call = "poll", !.presp = resp,
                                           !.requests = r.requests,
                                           !.raised = r.raised,
                                           !.ret = r.ret,
                                           !.key_before = pure.qrcode_key]]
    /\ UNCHANGED gui_vars

AuthSave ==
    /\ pure.op = "auth"
    /\ \E ok \in BOOLEAN :
           pure' = [pure EXCEPT
               !.file = SaveCookies(pure.jar, pure.file, ok),
               !.last = [NoCall EXCEPT !.call = "save", !.ok = ok,
                                       !.key_before = pure.qrcode_key]]
    /\ UNCHANGED gui_vars

AuthLoad ==
    /\ pure.op = "auth"
    /\ pure' = [pure EXCEPT
           !.jar = LoadCookies(pure.jar, pure.file),
           !.last = [NoCall EXCEPT !.call = "load", !.key_before = pure.qrcode_key]]
    /\ UNCHANGED gui_vars

AuthLogout ==
    /\ pure.op = "auth"
    /\ \E ok \in BOOLEAN :
           LET r == Logout(pure.jar, pure.file, ok)
           IN  pure' = [pure EXCEPT
                   !.jar = r.jar, !.file = r.file,
                   !.last = [NoCall EXCEPT !.call = "logout", !.ok = ok,
                                           !.key_before = pure.qrcode_key]]
    /\ UNCHANGED gui_vars

NextAuth == AuthGenerate \/ AuthPoll \/ AuthSave \/ AuthLoad \/ AuthLogout

SpecAuth == AuthInit /\ [][NextAuth]_vars

\* C15: a poll before any successful generateChallenge raises and issues no
\* request; a poll after one issues exactly one request.
C15_PollNeedsChallenge ==
    pure.last.call = "poll" =>
        IF pure.generated
        THEN pure.last.requests = 1
        ELSE pure.last.raised /\ pure.last.requests = 0

\* C15 witness: a poll that was refused for want of a challenge
C15_Witness ==
    /\ pure.last.call = "poll"
    /\ ~pure.generated
    /\ pure.last.raised
    /\ pure.last.requests = 0

\* the status code and the message the platform sent: those of the envelope
\* when it reports an error, else those inside it
RemoteCode(resp) == IF resp.code # 0 THEN resp.code ELSE resp.dcode

RemoteMessage(resp) == IF resp.code # 0 THEN resp.message ELSE resp.dmessage

C17_NoCredentialsAfterLogout ==
    pure.last.call = "logout" => (pure.jar = NoCred /\ pure.file = NoFile)

\* C19: after a poll returned 0 or 86038 the authenticator holds no challenge
\* key, until a new challenge is generated.
C19_ChallengeDiscarded == pure.terminal => Falsy(pure.qrcode_key)

\* C20: generateChallenge raises exactly when it gets no answer or a non-zero
\* code; when it raises the stored key is what it was, otherwise it is the
\* key of the answer.
C20_GenerateStoresKey ==
    pure.last.call = "generate" =>
        /\ pure.last.raised <=>
               (pure.last.gresp.kind = "transport" \/ pure.last.gresp.code # 0)
        /\ pure.last.raised => pure.qrcode_key = pure.last.key_before
        /\ ~pure.last.raised => pure.qrcode_key = pure.last.gresp.key

\* C20 witness: a refused generateChallenge after a successful one; the key of
\* the refused answer is not stored
C20_Witness ==
    /\ pure.last.call = "generate"
    /\ pure.last.raised
    /\ pure.last.gresp.code = -1
    /\ pure.last.key_before \in Keys
    /\ pure.last.gresp.key # pure.last.key_before
    /\ pure.qrcode_key = pure.last.key_before

----------------------------------------------------------------------------
(* SpecLogin: the Login / LOGOUT button (handle_auth), the login dialogs    *)
(* and their 2000 ms timers.  dialog.exec() is modal: the button cannot be  *)
(* clicked while a dialog is open.  A dialog is a child of the main window  *)
(* and is not deleted when it closes, so its timer lives on.                *)

Dialog(open, timer, key) ==
    [open |-> open,        \* exec() of the dialog has not returned
     timer |-> timer,      \* "none" (never created), "active" or "stopped"
     key |-> key,          \* the challenge generated for this dialog, or None
     terminal |-> FALSE,   \* a poll of this dialog returned 0 or 86038
     late |-> FALSE,       \* this dialog polled again after that
     stray |-> FALSE]      \* this dialog polled while closed or with the
                           \* challenge of another dialog

\* MainWindow.__init__: load_cookies, is_logged_in False, check_login_status
LoginInit ==
    /\ GuiInit
    /\ pure \in { [op |-> "login", qrcode_key |-> None,
                   jar |-> LoadCookies(NoCred, f), file |-> f,
                   is_logged_in |-> FALSE, check_pending |-> TRUE,
                   dlg |-> <<>>] : f \in {NoFile} \cup Creds }

DialogOpen == \E i \in 1..Len(pure.dlg) : pure.dlg[i].open

\* on_login_check_finished with the answer of get_user_info: the platform
\* reports a user only for a session that holds a credential
OnLoginCheckFinished ==
    /\ pure.op = "login"
    /\ pure.check_pending
    /\ \E user_info \in (IF pure.jar \in Creds THEN BOOLEAN ELSE {FALSE}) :
           pure' = [pure EXCEPT !.is_logged_in = user_info, !.check_pending = FALSE]
    /\ UNCHANGED gui_vars

\* handle_auth when logged out, up to dialog.exec(): LoginDialog.__init__ and
\* start_login_process, which starts the timer unless get_login_qrcode raised
HandleAuthLogin ==
    /\ pure.op = "login"
    /\ ~pure.is_logged_in
    /\ ~DialogOpen
    /\ Len(pure.dlg) < MaxDialogs
    /\ \E resp \in GenResps :
           LET r == GetLoginQrcode(pure.qrcode_key, resp)
           IN  pure' = [pure EXCEPT
                   !.qrcode_key = r.qrcode_key,
                   !.dlg = Append(@, Dialog(TRUE,
                                     IF r.raised THEN "none" ELSE "active",
                                     IF r.raised THEN None ELSE r.qrcode_key))]
    /\ UNCHANGED gui_vars

\* handle_auth when logged in and the confirmation is answered Yes
HandleAuthLogout ==
    /\ pure.op = "login"
    /\ pure.is_logged_in
    /\ ~DialogOpen
    /\ \E ok \in BOOLEAN :
           LET r == Logout(pure.jar, pure.file, ok)
           IN  pure' = [pure EXCEPT !.jar = r.jar, !.file = r.file,
                                    !.check_pending = TRUE]
    /\ UNCHANGED gui_vars

\* the user dismisses the dialog: exec() returns Rejected and handle_auth ends
CloseDialog ==
    /\ pure.op = "login"
    /\ \E i \in 1..Len(pure.dlg) :
           /\ pure.dlg[i].open
           /\ pure' = [pure EXCEPT !.dlg[i].open = FALSE]
    /\ UNCHANGED gui_vars

\* LoginDialog.poll_status on a timeout of the dialog's timer; when it accepts
\* an open dialog, exec() returns Accepted and handle_auth saves the cookies
PollStatus ==
    /\ pure.op = "login"
    /\ \E i \in 1..Len(pure.dlg) :
           /\ pure.dlg[i].timer = "active"
           /\ \E resp \in PollResps, ok \in BOOLEAN :
                  LET r == PollLoginStatus(pure.qrcode_key, resp)
                      d == pure.dlg[i]
                      polled == [d EXCEPT
                                   !.late = @ \/ (d.terminal /\ r.requests > 0),
                                   !.stray = @ \/ (/\ r.requests > 0
                                                    /\ \/ ~d.open
                                                       \/ d.key # pure.qrcode_key),
                                   !.terminal = @ \/ (~r.raised
                                                      /\ r.ret.code \in {0, 86038})]
                      jar == JarAfterPoll(pure.jar, pure.qrcode_key, resp)
                  IN  IF ~r.raised /\ r.ret.code = 0
                      THEN pure' = [pure EXCEPT
                               !.jar = jar,
                               !.dlg[i] = [polled EXCEPT !.timer = "stopped",
                                                         !.open = FALSE],
                               !.file = IF d.open THEN SaveCookies(jar, @, ok) ELSE @,
                               !.check_pending = @ \/ d.open]
                      ELSE /\ ok
                           /\ pure' = [pure EXCEPT !.jar = jar, !.dlg[i] = polled]
    /\ UNCHANGED gui_vars

NextLogin ==
    \/ OnLoginCheckFinished
    \/ HandleAuthLogin
    \/ HandleAuthLogout
    \/ CloseDialog
    \/ PollStatus

SpecLogin == LoginInit /\ [][NextLogin]_vars

\* C14: once a poll of a dialog returned 0 or 86038, the dialog's timer issues
\* no further poll.
C14_NoPollAfterTerminal == \A i \in 1..Len(pure.dlg) : ~pure.dlg[i].late

\* C18: the session is never left authenticated in memory and not saved: when
\* handle_auth is over (no dialog open), a credential in the cookie jar is the
\* one in the cookie file.
C18_AuthenticatedIsSaved ==
    (pure.op = "login" /\ ~DialogOpen /\ pure.jar \in Creds) => pure.file = pure.jar

\* C29: a login dialog polls only while it is open and with the challenge
\* generated for it: a dialog whose challenge generation failed never polls,
\* and a dialog the user dismissed without logging in polls no more.
C29_PollOnlyWhileOpen ==
    \A i \in 1..Len(pure.dlg) : ~pure.dlg[i].stray

====
